---- MODULE Spec2Model ----
(***************************************************************************)
(* resoy: a command-line DNS lookup tool.  main() builds a DNS client,     *)
(* parses the domain name and the record-type names, runs one query per    *)
(* record type, collects the answers and prints one formatted line per     *)
(* record.  RecordFormatter renders one record as one line.                *)
(*                                                                         *)
(* Text is modelled as a sequence of one-character strings, so padding,    *)
(* zero-filling and escape sequences are computed character by character.  *)
(* The element "ESC" stands for the single character U+001B.               *)
(***************************************************************************)
EXTENDS Integers, Sequences, FiniteSets, TLC

VARIABLES
    platform,      \* build target: "unix" (cfg(not(windows))) or "windows"
    formatter,     \* the RecordFormatter value: [result, config]
    line,          \* what format() last produced
    ttl_text,      \* what format_duration() returned within that call
    pc,            \* position of main()
    raw,           \* cli.record_types: Vec<String>
    record_types,  \* the Vec<RecordType> parse_record_types returned
    names,         \* the names behind record_types, in the same order
    log,           \* one entry per query: [name, rtype, ok, answers]
    results,       \* Vec<Record> collected by the query loop
    config,        \* the OutputConfig of main()
    qi,            \* how many record types the query loop has taken
    printed,       \* lines written to stdout
    failed         \* TRUE once one of main()'s steps met an error

vars == <<platform, formatter, line, ttl_text, pc, raw, record_types, names, log,
          results, config, qi, printed, failed>>

---------------------------------------------------------------------------
(* Bounds of the model *)

\* TTLs are sampled within Span of 0, of each threshold and of 2^32-1
Span == 2
\* longest list of record-type names given on the command line
MaxTypes == 2
\* longest answer section of one response
MaxAnswers == 1

---------------------------------------------------------------------------
(* Text *)

Digits == <<"0", "1", "2", "3", "4", "5", "6", "7", "8", "9">>

\* Display of an unsigned integer: "{}"
RECURSIVE ToDec(_)
ToDec(n) ==
    IF n < 10 THEN <<Digits[n + 1]>>
    ELSE ToDec(n \div 10) \o <<Digits[(n % 10) + 1]>>

Fill(ch, k) == [i \in 1..k |-> ch]

\* "{:<w}": the padding put on the wrong side
PadLeftAlign(s, w) ==
    IF Len(s) >= w THEN s ELSE s \o Fill(" ", w - Len(s))

\* "{:>w}" on a string: left-padded with spaces to a minimum width, counted
\* in characters; a longer string is emitted in full
PadRightAlign(s, w) ==
    IF Len(s) >= w THEN s ELSE Fill(" ", w - Len(s)) \o s

\* "{:0w}" on an unsigned integer
PadZero(n, w) ==
    LET d == ToDec(n) IN IF Len(d) >= w THEN d ELSE Fill("0", w - Len(d)) \o d

---------------------------------------------------------------------------
(* Records *)

\* A u32 is kept as three limbs <<a, b, c>> of value a * 10^8 + b * 10^4 + c
\* (b, c < 10^4, a <= 42), so that every intermediate value of the
\* arithmetic below stays within 32-bit signed integers.
U32(k) == <<k \div 100000000, (k \div 10000) % 10000, k % 10000>>

\* u32::MAX = 4294967295
MaxU32 == <<42, 9496, 7295>>

\* n < k, for a constant k < 10^8
U32Less(n, k) == n[1] = 0 /\ n[2] * 10000 + n[3] < k

\* n / d and n % d by long division, for a constant 60 <= d <= 86400
U32Quot(n, d) ==
    LET q2 == n[1] \div d
        c1 == (n[1] % d) * 10000 + n[2]
        q1 == c1 \div d
        c0 == (c1 % d) * 10000 + n[3]
    IN  (q2 * 10000 + q1) * 10000 + (c0 \div d)

U32Rem(n, d) ==
    LET c1 == (n[1] % d) * 10000 + n[2]
        c0 == (c1 % d) * 10000 + n[3]
    IN  c0 % d

\* Display of a u32: "{}"
U32Dec(n) ==
    IF n[1] > 0 THEN ToDec(n[1]) \o PadZero(n[2], 4) \o PadZero(n[3], 4)
    ELSE IF n[2] > 0 THEN ToDec(n[2]) \o PadZero(n[3], 4)
    ELSE ToDec(n[3])

KnownTags ==
    {"A", "AAAA", "ANAME", "ANY", "AXFR", "CAA", "CDS", "CDNSKEY",
     "CNAME", "CSYNC", "DNSKEY", "DS", "HINFO", "HTTPS", "IXFR", "KEY",
     "MX", "NAPTR", "NS", "NSEC", "NSEC3", "NSEC3PARAM", "NULL", "OPENPGPKEY",
     "OPT", "PTR", "RRSIG", "SIG", "SOA", "SRV", "SSHFP", "SVCB",
     "TLSA", "TSIG", "TXT", "ZERO"}

\* RecordType::Unknown(u16): two of its values
UnknownCodes == {65280, 65535}

RecordTypes ==
    {[tag |-> t, code |-> 0] : t \in KnownTags}
        \cup {[tag |-> "Unknown", code |-> c] : c \in UnknownCodes}

RT(t) == [tag |-> t, code |-> 0]

\* Display of RecordType
TagText(tag) ==
    CASE tag = "A" -> <<"A">>
      [] tag = "AAAA" -> <<"A", "A", "A", "A">>
      [] tag = "ANAME" -> <<"A", "N", "A", "M", "E">>
      [] tag = "ANY" -> <<"A", "N", "Y">>
      [] tag = "AXFR" -> <<"A", "X", "F", "R">>
      [] tag = "CAA" -> <<"C", "A", "A">>
      [] tag = "CDS" -> <<"C", "D", "S">>
      [] tag = "CDNSKEY" -> <<"C", "D", "N", "S", "K", "E", "Y">>
      [] tag = "CNAME" -> <<"C", "N", "A", "M", "E">>
      [] tag = "CSYNC" -> <<"C", "S", "Y", "N", "C">>
      [] tag = "DNSKEY" -> <<"D", "N", "S", "K", "E", "Y">>
      [] tag = "DS" -> <<"D", "S">>
      [] tag = "HINFO" -> <<"H", "I", "N", "F", "O">>
      [] tag = "HTTPS" -> <<"H", "T", "T", "P", "S">>
      [] tag = "IXFR" -> <<"I", "X", "F", "R">>
      [] tag = "KEY" -> <<"K", "E", "Y">>
      [] tag = "MX" -> <<"M", "X">>
      [] tag = "NAPTR" -> <<"N", "A", "P", "T", "R">>
      [] tag = "NS" -> <<"N", "S">>
      [] tag = "NSEC" -> <<"N", "S", "E", "C">>
      [] tag = "NSEC3" -> <<"N", "S", "E", "C", "3">>
      [] tag = "NSEC3PARAM" -> <<"N", "S", "E", "C", "3", "P", "A", "R", "A", "M">>
      [] tag = "NULL" -> <<"N", "U", "L", "L">>
      [] tag = "OPENPGPKEY" -> <<"O", "P", "E", "N", "P", "G", "P", "K", "E", "Y">>
      [] tag = "OPT" -> <<"O", "P", "T">>
      [] tag = "PTR" -> <<"P", "T", "R">>
      [] tag = "RRSIG" -> <<"R", "R", "S", "I", "G">>
      [] tag = "SIG" -> <<"S", "I", "G">>
      [] tag = "SOA" -> <<"S", "O", "A">>
      [] tag = "SRV" -> <<"S", "R", "V">>
      [] tag = "SSHFP" -> <<"S", "S", "H", "F", "P">>
      [] tag = "SVCB" -> <<"S", "V", "C", "B">>
      [] tag = "TLSA" -> <<"T", "L", "S", "A">>
      [] tag = "TSIG" -> <<"T", "S", "I", "G">>
      [] tag = "TXT" -> <<"T", "X", "T">>
      [] tag = "ZERO" -> <<"Z", "E", "R", "O">>
      [] OTHER -> <<"U", "n", "k", "n", "o", "w", "n">>

ExampleName == <<"e", "x", "a", "m", "p", "l", "e", ".", "c", "o", "m", ".">>
RootName == <<".">>
ExampleAddr == <<"9", "3", ".", "1", "8", "4", ".", "2", "1", "6", ".", "3", "4">>
ExampleMx == <<"1", "0", " ", "m", "x", ".">>

\* Option<&RData>, with the text its Display gives
NoData == [some |-> FALSE, text |-> <<>>]
SomeData(t) == [some |-> TRUE, text |-> t]

Thresholds == {60, 60 * 60, 60 * 60 * 24}

\* TTLs: u32 values near 0, near each threshold, near 2^31 and near u32::MAX,
\* and some in the middle of each range
TTLs ==
    {U32(k) : k \in (0..Span)
                      \cup UNION {((t - Span)..(t + Span)) : t \in Thresholds}
                      \cup {300, 3661, 36000, 90061, 172799, 950400}}
        \cup {<<21, 4748, 3647 - k>> : k \in 0..Span}
        \cup {<<21, 4748, 3648 + k>> : k \in 0..Span}
        \cup {<<31, 5576, 0>>}
        \cup {<<MaxU32[1], MaxU32[2], MaxU32[3] - k>> : k \in 0..Span}

Records ==
    [rtype : RecordTypes,
     name  : {ExampleName, RootName},
     ttl   : TTLs,
     data  : {NoData, SomeData(ExampleAddr), SomeData(ExampleMx)}]

OutputConfig(format_seconds, ansi) ==
    [format_seconds |-> format_seconds, ansi |-> ansi]

Configs == {OutputConfig(f, a) : f \in BOOLEAN, a \in BOOLEAN}

RecordFormatter(result, cfg) == [result |-> result, config |-> cfg]

---------------------------------------------------------------------------
(* RecordFormatter *)

rormat_record_type(self) == TagText(self.result.rtype.tag)

format_name(self) == self.result.name

\* an absent payload rendered as a placeholder instead of the empty string
format_payload_placeholder(self) ==
    IF self.result.data.some THEN self.result.data.text ELSE <<"-">>

format_payload(self) ==
    IF self.result.data.some THEN self.result.data.text ELSE <<>>

\* the hours of the day branch zero-padded like the minutes
format_duration_padded_hours(self) ==
    LET seconds == self.result.ttl IN
    IF ~self.config.format_seconds THEN U32Dec(seconds)
    ELSE IF U32Less(seconds, 60) THEN U32Dec(seconds) \o <<"s">>
    ELSE IF U32Less(seconds, 60 * 60) THEN
        ToDec(U32Quot(seconds, 60)) \o <<"m">>
            \o PadZero(U32Rem(seconds, 60), 2) \o <<"s">>
    ELSE IF U32Less(seconds, 60 * 60 * 24) THEN
        ToDec(U32Quot(seconds, 3600)) \o <<"h">>
            \o PadZero(U32Rem(seconds, 3600) \div 60, 2) \o <<"m">>
            \o PadZero(U32Rem(seconds, 60), 2) \o <<"s">>
    ELSE
        ToDec(U32Quot(seconds, 86400)) \o <<"d">>
            \o PadZero(U32Rem(seconds, 86400) \div 3600, 2) \o <<"h">>
            \o PadZero(U32Rem(seconds, 3600) \div 60, 2) \o <<"m">>
            \o PadZero(U32Rem(seconds, 60), 2) \o <<"s">>

\* the minutes of the hour branch taken as seconds / 60, the "% 3600" left out
format_duration_whole_minutes(self) ==
    LET seconds == self.result.ttl IN
    IF ~self.config.format_seconds THEN U32Dec(seconds)
    ELSE IF U32Less(seconds, 60) THEN U32Dec(seconds) \o <<"s">>
    ELSE IF U32Less(seconds, 60 * 60) THEN
        ToDec(U32Quot(seconds, 60)) \o <<"m">>
            \o PadZero(U32Rem(seconds, 60), 2) \o <<"s">>
    ELSE IF U32Less(seconds, 60 * 60 * 24) THEN
        ToDec(U32Quot(seconds, 3600)) \o <<"h">>
            \o PadZero(U32Quot(seconds, 60), 2) \o <<"m">>
            \o PadZero(U32Rem(seconds, 60), 2) \o <<"s">>
    ELSE
        ToDec(U32Quot(seconds, 86400)) \o <<"d">>
            \o ToDec(U32Rem(seconds, 86400) \div 3600) \o <<"h">>
            \o PadZero(U32Rem(seconds, 3600) \div 60, 2) \o <<"m">>
            \o PadZero(U32Rem(seconds, 60), 2) \o <<"s">>

format_duration(self) ==
    LET seconds == self.result.ttl IN
    IF ~self.config.format_seconds THEN U32Dec(seconds)
    ELSE IF U32Less(seconds, 60) THEN U32Dec(seconds) \o <<"s">>
    ELSE IF U32Less(seconds, 60 * 60) THEN
        ToDec(U32Quot(seconds, 60)) \o <<"m">>
            \o PadZero(U32Rem(seconds, 60), 2) \o <<"s">>
    ELSE IF U32Less(seconds, 60 * 60 * 24) THEN
        ToDec(U32Quot(seconds, 3600)) \o <<"h">>
            \o PadZero(U32Rem(seconds, 3600) \div 60, 2) \o <<"m">>
            \o PadZero(U32Rem(seconds, 60), 2) \o <<"s">>
    ELSE
        ToDec(U32Quot(seconds, 86400)) \o <<"d">>
            \o ToDec(U32Rem(seconds, 86400) \div 3600) \o <<"h">>
            \o PadZero(U32Rem(seconds, 3600) \div 60, 2) \o <<"m">>
            \o PadZero(U32Rem(seconds, 60), 2) \o <<"s">>

\* NS given the index of NAPTR
get_record_color_dup(rtype) ==
    CASE rtype.tag = "A" -> 1
      [] rtype.tag = "AAAA" -> 2
      [] rtype.tag = "ANAME" -> 3
      [] rtype.tag = "ANY" -> 4
      [] rtype.tag = "AXFR" -> 5
      [] rtype.tag = "CAA" -> 6
      [] rtype.tag = "CDS" -> 7
      [] rtype.tag = "CDNSKEY" -> 8
      [] rtype.tag = "CSYNC" -> 9
      [] rtype.tag = "DNSKEY" -> 10
      [] rtype.tag = "DS" -> 11
      [] rtype.tag = "HINFO" -> 12
      [] rtype.tag = "HTTPS" -> 13
      [] rtype.tag = "IXFR" -> 14
      [] rtype.tag = "KEY" -> 15
      [] rtype.tag = "MX" -> 38
      [] rtype.tag = "NAPTR" -> 17
      [] rtype.tag = "NS" -> 17
      [] rtype.tag = "NSEC" -> 19
      [] rtype.tag = "NSEC3" -> 20
      [] rtype.tag = "NSEC3PARAM" -> 21
      [] rtype.tag = "NULL" -> 22
      [] rtype.tag = "OPENPGPKEY" -> 23
      [] rtype.tag = "OPT" -> 24
      [] rtype.tag = "PTR" -> 25
      [] rtype.tag = "RRSIG" -> 26
      [] rtype.tag = "SIG" -> 27
      [] rtype.tag = "SOA" -> 28
      [] rtype.tag = "SRV" -> 29
      [] rtype.tag = "SSHFP" -> 30
      [] rtype.tag = "SVCB" -> 31
      [] rtype.tag = "TLSA" -> 32
      [] rtype.tag = "TSIG" -> 33
      [] rtype.tag = "TXT" -> 34
      [] rtype.tag = "Unknown" -> 35
      [] rtype.tag = "ZERO" -> 36
      [] OTHER -> 37

get_record_color(rtype) ==
    CASE rtype.tag = "A" -> 1
      [] rtype.tag = "AAAA" -> 2
      [] rtype.tag = "ANAME" -> 3
      [] rtype.tag = "ANY" -> 4
      [] rtype.tag = "AXFR" -> 5
      [] rtype.tag = "CAA" -> 6
      [] rtype.tag = "CDS" -> 7
      [] rtype.tag = "CDNSKEY" -> 8
      [] rtype.tag = "CSYNC" -> 9
      [] rtype.tag = "DNSKEY" -> 10
      [] rtype.tag = "DS" -> 11
      [] rtype.tag = "HINFO" -> 12
      [] rtype.tag = "HTTPS" -> 13
      [] rtype.tag = "IXFR" -> 14
      [] rtype.tag = "KEY" -> 15
      [] rtype.tag = "MX" -> 38
      [] rtype.tag = "NAPTR" -> 17
      [] rtype.tag = "NS" -> 18
      [] rtype.tag = "NSEC" -> 19
      [] rtype.tag = "NSEC3" -> 20
      [] rtype.tag = "NSEC3PARAM" -> 21
      [] rtype.tag = "NULL" -> 22
      [] rtype.tag = "OPENPGPKEY" -> 23
      [] rtype.tag = "OPT" -> 24
      [] rtype.tag = "PTR" -> 25
      [] rtype.tag = "RRSIG" -> 26
      [] rtype.tag = "SIG" -> 27
      [] rtype.tag = "SOA" -> 28
      [] rtype.tag = "SRV" -> 29
      [] rtype.tag = "SSHFP" -> 30
      [] rtype.tag = "SVCB" -> 31
      [] rtype.tag = "TLSA" -> 32
      [] rtype.tag = "TSIG" -> 33
      [] rtype.tag = "TXT" -> 34
      [] rtype.tag = "Unknown" -> 35
      [] rtype.tag = "ZERO" -> 36
      [] OTHER -> 37

\* the palette index of the name field
NameColor == 75

\* Display of Fg(AnsiValue(n)): ESC [ 38 ; 5 ; n m
FgAnsi(n) == <<"ESC", "[", "3", "8", ";", "5", ";">> \o ToDec(n) \o <<"m">>

\* Display of Fg(Reset): ESC [ 39 m
FgReset == <<"ESC", "[", "3", "9", "m">>

FormatPlain(self) ==
    PadRightAlign(rormat_record_type(self), 5) \o <<" ">>
        \o format_name(self) \o <<" ">>
        \o PadRightAlign(format_duration(self), 12) \o <<" ">>
        \o format_payload(self)

\* the width applied to the coloured text, escape sequences included
FormatAnsiPadColored(self) ==
    LET color == FgAnsi(get_record_color(self.result.rtype))
        reset_color == FgReset
        name_color == FgAnsi(NameColor)
    IN  PadRightAlign(color \o rormat_record_type(self) \o reset_color, 5)
            \o <<" ">>
            \o name_color \o format_name(self) \o reset_color \o <<" ">>
            \o PadRightAlign(format_duration(self), 12) \o <<" ">>
            \o format_payload(self)

FormatAnsi(self) ==
    LET color == FgAnsi(get_record_color(self.result.rtype))
        reset_color == FgReset
        name_color == FgAnsi(NameColor)
    IN  color \o PadRightAlign(rormat_record_type(self), 5) \o reset_color
            \o <<" ">>
            \o name_color \o format_name(self) \o reset_color \o <<" ">>
            \o PadRightAlign(format_duration(self), 12) \o <<" ">>
            \o format_payload(self)

\* format() of the cfg(not(windows)) build
Format(self) ==
    IF ~self.config.ansi THEN FormatPlain(self) ELSE FormatAnsi(self)

NoLine == [kind |-> "none", text |-> <<>>]
Line(t) == [kind |-> "line", text |-> t]
BuildError == [kind |-> "build_error", text |-> <<>>]

\* the fields of struct RecordFormatter
FormatterFields == {"result", "config"}

\* the fields the cfg(windows) format() reads from self
WindowsFields == {"record_type", "name", "ttl_secods", "config", "payload"}

\* format() of the cfg(windows) build: it reads fields the struct does not
\* have, so the build is rejected and no line is ever produced
FormatWindows(self) ==
    IF WindowsFields \subseteq FormatterFields
    THEN Line(PadRightAlign(TagText(self.record_type.tag), 5) \o <<" ">>
                \o self.name \o <<" ">>
                \o PadRightAlign(format_duration(self), 12) \o <<" ">>
                \o self.payload)
    ELSE BuildError

---------------------------------------------------------------------------
(* The formatter on its own: RecordFormatter::new(record, &config).format() *)

NoConfig == [unset |-> TRUE]
NoFormatter == [unset |-> TRUE]

FmtInit ==
    /\ platform \in {"unix", "windows"}
    /\ config \in Configs
    /\ formatter \in {RecordFormatter(r, config) : r \in Records}
    /\ line = NoLine
    /\ ttl_text = <<>>
    /\ pc = "unit"
    /\ raw = <<>>
    /\ record_types = <<>>
    /\ names = <<>>
    /\ log = <<>>
    /\ results = <<>>
    /\ qi = 0
    /\ printed = <<>>
    /\ failed = FALSE

FormatCall ==
    /\ pc = "unit"
    /\ platform = "unix"
    /\ line = NoLine
    /\ ttl_text' = format_duration(formatter)
    /\ line' = Line(Format(formatter))
    /\ UNCHANGED <<platform, formatter, pc, raw, record_types, names, log,
                   results, config, qi, printed, failed>>

FormatCallWindows ==
    /\ pc = "unit"
    /\ platform = "windows"
    /\ line = NoLine
    /\ line' = FormatWindows(formatter)
    /\ UNCHANGED <<platform, formatter, ttl_text, pc, raw, record_types, names, log,
                   results, config, qi, printed, failed>>

FmtNext == FormatCall \/ FormatCallWindows

FmtSpec == FmtInit /\ [][FmtNext]_vars

---------------------------------------------------------------------------
(* main() *)

\* record-type names given on the command line
TypeNames == {"A", "ANY", "*", "BOGUS"}

\* the names RecordType::from_str accepts, among those used here
FromStrNames == {"A", "AAAA", "ANY", "CNAME", "MX", "NS", "SOA", "TXT", "*"}

\* RecordType::from_str: "*" is another spelling of ANY
from_str(value) ==
    IF value = "*" THEN [ok |-> TRUE, value |-> RT("ANY")]
    ELSE IF value \in FromStrNames THEN [ok |-> TRUE, value |-> RT(value)]
    ELSE [ok |-> FALSE, value |-> RT("ZERO")]

Range(s) == {s[i] : i \in DOMAIN s}

NonEmptySeqs(S, n) == UNION {[1..k -> S] : k \in 1..n}
SeqsUpTo(S, n) == UNION {[1..k -> S] : k \in 0..n}

\* the orders in which a HashSet<String> with the elements S may be iterated
IterationOrders(S) ==
    {o \in [1..Cardinality(S) -> S] : \A i, j \in DOMAIN o : o[i] = o[j] => i = j}

\* HashSet::from_iter(raw): the distinct strings of raw
unique(rawv) == Range(rawv)

\* parse_record_types: whether every from_str succeeds (else it panics)
parse_record_types_ok(rawv) == \A v \in unique(rawv) : from_str(v).ok

\* parse_record_types, iterating the set in the order o
parse_record_types(o) == [i \in DOMAIN o |-> from_str(o[i]).value]

\* the records the server may answer with
RecordA ==
    [rtype |-> RT("A"), name |-> ExampleName, ttl |-> U32(300),
     data |-> SomeData(ExampleAddr)]
RecordCname ==
    [rtype |-> RT("CNAME"), name |-> RootName, ttl |-> U32(90061),
     data |-> NoData]
AnswerRecords == {RecordA, RecordCname}

\* ClientResult<DnsResponse>
Responses ==
    {[ok |-> FALSE, answers |-> <<>>]}
        \cup {[ok |-> TRUE, answers |-> a] : a \in SeqsUpTo(AnswerRecords, MaxAnswers)}

\* the error dropped and main() carrying on
unwrap_ignore(ok, next) == next

\* .unwrap() / .expect() / unwrap_or_else(panic!): where main() goes next
unwrap(ok, next) == IF ok THEN next ELSE "panicked"

Init ==
    /\ platform = "unix"
    /\ formatter = NoFormatter
    /\ line = NoLine
    /\ ttl_text = <<>>
    /\ pc = "new_client"
    /\ raw \in NonEmptySeqs(TypeNames, MaxTypes)
    /\ record_types = <<>>
    /\ names = <<>>
    /\ log = <<>>
    /\ results = <<>>
    /\ config = NoConfig
    /\ qi = 0
    /\ printed = <<>>
    /\ failed = FALSE

\* DnsClient::new(cli.connection, &cli.server)
NewClient ==
    /\ pc = "new_client"
    /\ \E addr_ok \in BOOLEAN, conn_ok \in BOOLEAN :
          /\ pc' = unwrap(addr_ok /\ conn_ok, "parse_name")
          /\ failed' = (failed \/ ~(addr_ok /\ conn_ok))
    /\ UNCHANGED <<platform, formatter, line, ttl_text, raw, record_types, names, log,
                   results, config, qi, printed>>

\* parse_domain_name(&cli.name)
ParseDomainName ==
    /\ pc = "parse_name"
    /\ \E name_ok \in BOOLEAN :
          /\ pc' = unwrap(name_ok, "parse_types")
          /\ failed' = (failed \/ ~name_ok)
    /\ UNCHANGED <<platform, formatter, line, ttl_text, raw, record_types, names, log,
                   results, config, qi, printed>>

\* parse_record_types(cli.record_types)
ParseRecordTypes ==
    /\ pc = "parse_types"
    /\ pc' = unwrap(parse_record_types_ok(raw), "query")
    /\ failed' = (failed \/ ~parse_record_types_ok(raw))
    /\ IF parse_record_types_ok(raw)
       THEN \E o \in IterationOrders(unique(raw)) :
               /\ names' = o
               /\ record_types' = parse_record_types(o)
       ELSE UNCHANGED <<names, record_types>>
    /\ UNCHANGED <<platform, formatter, line, ttl_text, raw, log, results, config, qi,
                   printed>>

\* one iteration of: for record_type in record_types { query; extend }
Query ==
    /\ pc = "query"
    /\ qi < Len(record_types)
    /\ \E response \in Responses :
          /\ qi' = qi + 1
          /\ log' = Append(log, [name |-> names[qi + 1],
                                 rtype |-> record_types[qi + 1],
                                 ok |-> response.ok,
                                 answers |-> response.answers])
          /\ pc' = unwrap(response.ok, "query")
          /\ failed' = (failed \/ ~response.ok)
          /\ results' = results \o response.answers
    /\ UNCHANGED <<platform, formatter, line, ttl_text, raw, record_types, names,
                   config, printed>>

\* the query loop is over: OutputConfig::new(!cli.seconds, !cli.no_ansi)
NewOutputConfig ==
    /\ pc = "query"
    /\ qi = Len(record_types)
    /\ \E seconds \in BOOLEAN, no_ansi \in BOOLEAN :
          config' = OutputConfig(~seconds, ~no_ansi)
    /\ pc' = "print"
    /\ UNCHANGED <<platform, formatter, line, ttl_text, raw, record_types, names, log,
                   results, qi, printed, failed>>

\* one iteration of: for result in results { println!(format()) }
PrintRecord ==
    /\ pc = "print"
    /\ Len(printed) < Len(results)
    /\ formatter' = RecordFormatter(results[Len(printed) + 1], config)
    /\ ttl_text' = format_duration(formatter')
    /\ line' = Line(Format(formatter'))
    /\ printed' = Append(printed, line'.text)
    /\ UNCHANGED <<platform, pc, raw, record_types, names, log, results,
                   config, qi, failed>>

\* main() returns
Exit ==
    /\ pc = "print"
    /\ Len(printed) = Len(results)
    /\ pc' = "done"
    /\ UNCHANGED <<platform, formatter, line, ttl_text, raw, record_types, names, log,
                   results, config, qi, printed, failed>>

Next ==
    \/ NewClient
    \/ ParseDomainName
    \/ ParseRecordTypes
    \/ Query
    \/ NewOutputConfig
    \/ PrintRecord
    \/ Exit

Spec == Init /\ [][Next]_vars

---------------------------------------------------------------------------
(* What the claims about the formatter are stated with *)

Max(a, b) == IF a >= b THEN a ELSE b

IsDigit(ch) == \E i \in 1..10 : Digits[i] = ch
DigitVal(ch) == (CHOOSE i \in 1..10 : Digits[i] = ch) - 1

\* the two decimal digits of n < 100
TwoDigits(n) == <<Digits[(n \div 10) + 1], Digits[(n % 10) + 1]>>

RECURSIVE DecValue(_)
DecValue(d) ==
    IF d = <<>> THEN 0
    ELSE DecValue(SubSeq(d, 1, Len(d) - 1)) * 10 + DigitVal(d[Len(d)])

\* the u32 a string of at most 10 digits denotes
DecimalToU32(d) ==
    LET n == Len(d) IN
    <<DecValue(SubSeq(d, 1, n - 8)),
      DecValue(SubSeq(d, Max(1, n - 7), n - 4)),
      DecValue(SubSeq(d, Max(1, n - 3), n))>>

\* t is the decimal numeral of s: digits only, no leading zero, value s
IsDecimalOf(t, s) ==
    /\ Len(t) \in 1..10
    /\ \A i \in DOMAIN t : IsDigit(t[i])
    /\ Len(t) > 1 => t[1] # "0"
    /\ DecimalToU32(t) = s

\* s as an integer, when s < 10^8
Small(s) == s[2] * 10000 + s[3]
Below(s, k) == s[1] = 0 /\ Small(s) < k

\* s / 86400 and s % 86400, from 10^8 = 1157 * 86400 + 35200
DayQuot(s) == s[1] * 1157 + (s[1] * 35200 + Small(s)) \div 86400
DayRem(s) == (s[1] * 35200 + Small(s)) % 86400

\* d * 86400 + rest as a u32, for rest < 86400
DaysPlus(d, rest) ==
    LET c0 == (d % 10000) * 86400 + rest
        c1 == (d \div 10000) * 86400 + c0 \div 10000
    IN  <<c1 \div 10000, c1 % 10000, c0 % 10000>>

\* the rendering the specification gives for a TTL of s seconds
ExpectedDuration(s) ==
    LET v == Small(s)
        r == DayRem(s)
    IN  IF Below(s, 60) THEN ToDec(v) \o <<"s">>
        ELSE IF Below(s, 3600) THEN
            ToDec(v \div 60) \o <<"m">> \o TwoDigits(v % 60) \o <<"s">>
        ELSE IF Below(s, 86400) THEN
            ToDec(v \div 3600) \o <<"h">> \o TwoDigits((v % 3600) \div 60)
                \o <<"m">> \o TwoDigits(v % 60) \o <<"s">>
        ELSE
            ToDec(DayQuot(s)) \o <<"d">> \o ToDec(r \div 3600) \o <<"h">>
                \o TwoDigits((r % 3600) \div 60) \o <<"m">>
                \o TwoDigits(r % 60) \o <<"s">>

\* the components of a rendered duration: <<[n, u], ...>>, a number and its unit
RECURSIVE ParseFrom(_, _, _)
ParseFrom(t, i, n) ==
    IF i > Len(t) THEN <<>>
    ELSE IF IsDigit(t[i]) THEN ParseFrom(t, i + 1, n * 10 + DigitVal(t[i]))
    ELSE <<[n |-> n, u |-> t[i]]>> \o ParseFrom(t, i + 1, 0)

Components(t) == ParseFrom(t, 1, 0)
Units(c) == [i \in DOMAIN c |-> c[i].u]
Component(c, u) ==
    IF \E i \in DOMAIN c : c[i].u = u
    THEN c[CHOOSE i \in DOMAIN c : c[i].u = u].n
    ELSE 0

\* the text with every escape sequence (ESC up to the next "m") taken out
RECURSIVE StripFrom(_, _, _)
StripFrom(t, i, inside) ==
    IF i > Len(t) THEN <<>>
    ELSE IF inside THEN StripFrom(t, i + 1, t[i] # "m")
    ELSE IF t[i] = "ESC" THEN StripFrom(t, i + 1, TRUE)
    ELSE <<t[i]>> \o StripFrom(t, i + 1, FALSE)

StripAnsi(t) == StripFrom(t, 1, FALSE)

EscapePositions(t) == {i \in DOMAIN t : t[i] = "ESC"}

\* the palette index of the escape sequence ESC [ 38 ; 5 ; n m starting at i
PaletteIndexAt(t, i) ==
    LET end == CHOOSE j \in (i + 7)..Len(t) :
                   t[j] = "m" /\ \A k \in (i + 7)..(j - 1) : t[k] # "m"
    IN  IF SubSeq(t, i, i + 6) = <<"ESC", "[", "3", "8", ";", "5", ";">>
        THEN DecValue(SubSeq(t, i + 7, end - 1))
        ELSE -1

Formatted == line.kind = "line"
TheRecord == formatter.result
PlainConfig(c) == [c EXCEPT !.ansi = FALSE]

\* the same record under another TTL
WithTtl(f, t) == [f EXCEPT !.result.ttl = t]

---------------------------------------------------------------------------
(* Claims about the formatter, checked under FmtSpec *)

\* C1: format_duration returns the decimal numeral of the TTL when
\* format_seconds is false, and otherwise "{s}s", "{m}m{ss}s", "{h}h{mm}m{ss}s"
\* or "{d}d{h}h{mm}m{ss}s" by the thresholds 60, 3600 and 86400, the hours of
\* the day branch unpadded; 0, 59, 60, 3661 and 90061 render as "0s", "59s",
\* "1m00s", "1h01m01s" and "1d1h01m01s".
C1_FormatDuration ==
    Formatted =>
        LET s == TheRecord.ttl
            fs == formatter.config.format_seconds
        IN  /\ ~fs => IsDecimalOf(ttl_text, s)
            /\ fs => ttl_text = ExpectedDuration(s)
            /\ fs /\ s = U32(0) => ttl_text = <<"0", "s">>
            /\ fs /\ s = U32(59) => ttl_text = <<"5", "9", "s">>
            /\ fs /\ s = U32(60) => ttl_text = <<"1", "m", "0", "0", "s">>
            /\ fs /\ s = U32(3661) =>
                   ttl_text = <<"1", "h", "0", "1", "m", "0", "1", "s">>
            /\ fs /\ s = U32(90061) =>
                   ttl_text = <<"1", "d", "1", "h", "0", "1", "m", "0", "1", "s">>

\* C1 witness: a TTL of 90061 has been rendered with format_seconds set
C1_Witness ==
    /\ Formatted
    /\ formatter.config.format_seconds
    /\ TheRecord.ttl = U32(90061)
    /\ ttl_text = <<"1", "d", "1", "h", "0", "1", "m", "0", "1", "s">>

\* C10: with format_seconds the rendering loses nothing: its units are a
\* tail of d, h, m, s; seconds < 60, minutes < 60, hours < 24; the leading
\* component is at least 1 once the TTL is 60 or more; the components add up
\* to the TTL; and no other TTL renders to the same string.
C10_DurationLossless ==
    Formatted /\ formatter.config.format_seconds =>
        LET s == TheRecord.ttl
            c == Components(ttl_text)
        IN  /\ Units(c) \in {<<"s">>, <<"m", "s">>, <<"h", "m", "s">>,
                             <<"d", "h", "m", "s">>}
            /\ Component(c, "s") < 60
            /\ Component(c, "m") < 60
            /\ Component(c, "h") < 24
            /\ ~Below(s, 60) => Len(c) >= 2 /\ c[1].n >= 1
            /\ DaysPlus(Component(c, "d"),
                        Component(c, "h") * 3600 + Component(c, "m") * 60
                            + Component(c, "s")) = s
            /\ \A t \in TTLs \ {s} :
                   format_duration(WithTtl(formatter, t)) # ttl_text

\* C10 witness: the largest TTL, u32::MAX, has been rendered in days
C10_Witness ==
    /\ Formatted
    /\ formatter.config.format_seconds
    /\ TheRecord.ttl = MaxU32
    /\ Units(Components(ttl_text)) = <<"d", "h", "m", "s">>
    /\ Component(Components(ttl_text), "d") = 49710

\* the record and configuration of the end-to-end scenario
ScenarioFormatter ==
    RecordFormatter([rtype |-> RT("A"), name |-> ExampleName,
                     ttl |-> U32(300), data |-> SomeData(ExampleAddr)],
                    OutputConfig(TRUE, FALSE))

\* C3 as stated: type A, name "example.com.", TTL 300, payload
\* "93.184.216.34", format_seconds and no ansi give the line
\* "    A example.com.         5m00s 93.184.216.34", with 9 spaces between
\* the name and "5m00s".
C3_ScenarioLineAsStated ==
    Formatted /\ formatter = ScenarioFormatter =>
        line.text = <<" ", " ", " ", " ", "A", " ">> \o ExampleName
                        \o <<" ", " ", " ", " ", " ", " ", " ", " ", " ">>
                        \o <<"5", "m", "0", "0", "s", " ">> \o ExampleAddr

\* C3 amended: the same scenario gives the line
\* "    A example.com.        5m00s 93.184.216.34": 4 spaces before A and
\* 8 spaces between the name and "5m00s" (one separator and 7 of padding to
\* the width of 12), 45 characters in all.
C3_ScenarioLine ==
    Formatted /\ formatter = ScenarioFormatter =>
        /\ line.text = <<" ", " ", " ", " ", "A", " ">> \o ExampleName
                           \o <<" ", " ", " ", " ", " ", " ", " ", " ">>
                           \o <<"5", "m", "0", "0", "s", " ">> \o ExampleAddr
        /\ Len(line.text) = 45

\* C3 witness: the scenario's record has been formatted
C3_Witness ==
    /\ Formatted
    /\ formatter = ScenarioFormatter
    /\ ttl_text = <<"5", "m", "0", "0", "s">>

\* C5: without ansi the line is the record-type text right-aligned in at
\* least 5 columns, a space, the name unpadded, a space, the TTL rendering
\* right-aligned in at least 12 columns, a space and the payload text, empty
\* when the record has no data; longer fields are emitted in full and the
\* line holds no escape character.
C5_PlainLayout ==
    Formatted /\ ~formatter.config.ansi =>
        LET t == line.text
            ty == TagText(TheRecord.rtype.tag)
            nm == TheRecord.name
            pl == IF TheRecord.data.some THEN TheRecord.data.text ELSE <<>>
            w1 == Max(5, Len(ty))
            w2 == Max(12, Len(ttl_text))
            a == w1 + 1
            b == a + Len(nm) + 1
            c == b + w2 + 1
        IN  /\ Len(t) = c + Len(pl)
            /\ \A i \in 1..(w1 - Len(ty)) : t[i] = " "
            /\ SubSeq(t, w1 - Len(ty) + 1, w1) = ty
            /\ t[a] = " "
            /\ SubSeq(t, a + 1, a + Len(nm)) = nm
            /\ t[b] = " "
            /\ \A i \in (b + 1)..(b + w2 - Len(ttl_text)) : t[i] = " "
            /\ SubSeq(t, b + w2 - Len(ttl_text) + 1, b + w2) = ttl_text
            /\ t[c] = " "
            /\ SubSeq(t, c + 1, Len(t)) = pl
            /\ EscapePositions(t) = {}

\* C5 witness: a record without data and with a type name longer than 5
\* characters has been formatted without ansi, and the line ends in the
\* separator that precedes the empty payload
C5_Witness ==
    /\ Formatted
    /\ ~formatter.config.ansi
    /\ ~TheRecord.data.some
    /\ TheRecord.rtype.tag = "NSEC3PARAM"
    /\ Len(ttl_text) > 12
    /\ line.text[Len(line.text)] = " "

\* C6: with ansi, the line with its escape sequences removed is the line
\* format gives for the same record without ansi; there are exactly four
\* escape sequences, the colour start right before the padded record type,
\* a reset right after it, the name colour right before the name and a reset
\* right after the name.
C6_AnsiVisibleText ==
    Formatted /\ formatter.config.ansi =>
        LET t == line.text
            plain == Format([formatter EXCEPT
                                !.config = PlainConfig(formatter.config)])
            w1 == Max(5, Len(TagText(TheRecord.rtype.tag)))
            p2 == Len(FgAnsi(PaletteIndexAt(t, 1))) + w1 + 1
            p3 == p2 + Len(FgReset) + 1
            p4 == p3 + Len(FgAnsi(NameColor)) + Len(TheRecord.name)
        IN  /\ StripAnsi(t) = plain
            /\ EscapePositions(plain) = {}
            /\ EscapePositions(t) = {1, p2, p3, p4}
            /\ SubSeq(t, p2, p2 + Len(FgReset) - 1) = FgReset
            /\ SubSeq(t, p4, p4 + Len(FgReset) - 1) = FgReset

\* C6 witness: a record with a one-letter type has been formatted with
\* ansi, so the padding sits between the colour start and the type text
C6_Witness ==
    /\ Formatted
    /\ formatter.config.ansi
    /\ TheRecord.rtype.tag = "A"
    /\ Len(line.text) > Len(StripAnsi(line.text))
    /\ Cardinality(EscapePositions(line.text)) = 4

C9_WindowsDegradesToPlain ==
    platform = "windows" /\ line # NoLine =>
        line = Line(Format([formatter EXCEPT
                               !.config = PlainConfig(formatter.config)]))

---------------------------------------------------------------------------
(* Claims about main(), checked under Spec *)

\* the distinct elements of s in the order of their first occurrence
RECURSIVE FirstOccurrences(_)
FirstOccurrences(s) ==
    IF s = <<>> THEN <<>>
    ELSE LET front == FirstOccurrences(SubSeq(s, 1, Len(s) - 1))
             x == s[Len(s)]
         IN  IF x \in Range(front) THEN front ELSE Append(front, x)

\* the answers to the query made for the name n
AnswersTo(n) == log[CHOOSE i \in DOMAIN log : log[i].name = n].answers

RECURSIVE AnswersInOrder(_)
AnswersInOrder(ns) ==
    IF ns = <<>> THEN <<>>
    ELSE AnswersTo(ns[1]) \o AnswersInOrder(SubSeq(ns, 2, Len(ns)))

\* C2: the queries are run in the order the record types were given on
\* input, and the printed lines are the answers of each query, in the order
\* the library returned them, concatenated in that input order (stated for
\* the inputs whose names denote pairwise different record types).
C2_PrintedInInputOrder ==
    pc = "done" /\ (\A m, n \in Range(raw) :
                       from_str(m).value = from_str(n).value => m = n) =>
        LET given == FirstOccurrences(raw)
            all == AnswersInOrder(given)
        IN  /\ [i \in DOMAIN log |-> log[i].name] = given
            /\ printed = [i \in DOMAIN all |->
                             Format(RecordFormatter(all[i], config))]

\* C4: once any step has failed (the server address, the domain name, a
\* record-type name or any query, a later one included) main() is in its
\* error state and nothing has been printed; and a line is printed only
\* after every name was parsed and every query returned Ok.
C4_AbortBeforeFormatting ==
    /\ failed => pc = "panicked" /\ printed = <<>>
    /\ pc = "panicked" => printed = <<>>
    /\ printed # <<>> =>
           /\ ~failed
           /\ Len(record_types) = Cardinality(Range(raw))
           /\ qi = Len(record_types)
           /\ Len(log) = Len(record_types)
           /\ \A i \in DOMAIN log : log[i].ok

\* C4 witness: the second query failed after the first had returned
\* records, and nothing was printed
C4_Witness ==
    /\ pc = "panicked"
    /\ Len(log) = 2
    /\ log[1].ok
    /\ log[1].answers # <<>>
    /\ ~log[2].ok
    /\ results # <<>>
    /\ printed = <<>>

\* C7: no record type is queried twice in one invocation, and once the
\* query loop is over the number of queries is the number of distinct
\* record types requested, which is the number of distinct names.
C7_OneQueryPerType ==
    /\ \A i, j \in DOMAIN log : log[i].rtype = log[j].rtype => i = j
    /\ pc \in {"print", "done"} =>
           /\ Len(log) = Cardinality({from_str(n).value : n \in Range(raw)})
           /\ Len(log) = Cardinality(Range(raw))

====
